---- MODULE Spec2Model ----
(***************************************************************************)
(* utils::joinpoint<T> (utils/joinpoint.hh): every shard calls value();    *)
(* each call is submitted to the shard that created the joinpoint, which   *)
(* counts the arrivals on the semaphore _enter, runs the generator _func   *)
(* once all smp::count units are there, stores the value and releases the  *)
(* other callers through the semaphore _wait.                              *)
(*                                                                         *)
(* State of the model: the fields of the joinpoint, the two semaphores     *)
(* (counter, FIFO wait list, broken-exception), one record per value()     *)
(* call holding the position of its continuation chain, and the version    *)
(* counter read by the generator.  One action per task the reactor runs.   *)
(***************************************************************************)
EXTENDS Integers, Sequences, FiniteSets, TLC

\* Largest smp::count explored.
MaxShards == 3
\* Largest number of value() calls issued after the instance has resolved,
\* and largest smp::count explored with such calls.
MaxLateCalls == 2
MaxLateShards == 2
\* Largest number of value() calls within a round with repeated calls, and
\* largest smp::count explored with such calls.
MaxRoundCalls == 4
MaxDoubleShards == 3

VARIABLES
    smp_count,     \* smp::count, the number of shards
    creator,       \* this_shard_id() of the shard that ran the constructor
    participants,  \* the shards that will call value() in the round
    _shard,        \* joinpoint::_shard
    _enter,        \* joinpoint::_enter  (semaphore)
    _wait,         \* joinpoint::_wait   (semaphore)
    _value,        \* joinpoint::_value  (std::optional<T>)
    calls,         \* one record per value() call, in call order
    version,       \* the counter behind gms::version_generator
    arrivals,      \* number of _enter.signal() executed (instrumentation)
    gen_log,       \* one record per invocation of _func (instrumentation)
    outcomes,      \* the outcome of each completed _func future, in order
    wake_log       \* one record per _wait.signal(...) (instrumentation)

vars == <<smp_count, creator, participants, _shard, _enter, _wait, _value,
          calls, version, arrivals, gen_log, outcomes, wake_log>>

Shards == 0 .. (smp_count - 1)

\* ------------------------------------------------------------------------
\* Values, failures, futures
\* ------------------------------------------------------------------------
None == [kind |-> "none"]
Value(v) == [kind |-> "value", v |-> v]
Failure(e) == [kind |-> "failure", e |-> e]
Abort == [kind |-> "abort"]
Pending == [kind |-> "pending"]
Ready == [kind |-> "ready"]

IsValue(r) == r.kind = "value"
IsFailure(r) == r.kind = "failure"

RangeOf(s) == {s[i] : i \in DOMAIN s}

\* ------------------------------------------------------------------------
\* seastar::semaphore as joinpoint uses it
\* ------------------------------------------------------------------------
new_semaphore(count) == [count |-> count, wait_list |-> <<>>, ex |-> None]

\* Variant: the number of units asked for is not compared.
has_units_any(sem, nr) == sem.count >= 0

has_available_units(sem, nr) == sem.count >= 0 /\ sem.count >= nr

may_proceed(sem, nr) == has_available_units(sem, nr) /\ sem.wait_list = <<>>

\* The loop of signal(): hand units to the waiters at the front of the list.
RECURSIVE sem_drain(_)
sem_drain(r) ==
    IF r.sem.wait_list # <<>>
          /\ has_available_units(r.sem, Head(r.sem.wait_list).nr)
    THEN sem_drain([sem |-> [count |-> r.sem.count - Head(r.sem.wait_list).nr,
                             wait_list |-> Tail(r.sem.wait_list),
                             ex |-> r.sem.ex],
                    woken |-> Append(r.woken, Head(r.sem.wait_list).c)])
    ELSE r

\* semaphore::signal(nr): no effect on a broken semaphore.
sem_signal(sem, nr) ==
    IF sem.ex # None
    THEN [sem |-> sem, woken |-> <<>>]
    ELSE sem_drain([sem |-> [sem EXCEPT !.count = @ + nr], woken |-> <<>>])

\* semaphore::wait(nr) issued by call c.
sem_wait(sem, c, nr) ==
    IF may_proceed(sem, nr)
    THEN [sem |-> [sem EXCEPT !.count = @ - nr], fut |-> Ready]
    ELSE IF sem.ex # None
    THEN [sem |-> sem, fut |-> sem.ex]
    ELSE [sem |-> [sem EXCEPT !.wait_list = Append(@, [c |-> c, nr |-> nr])],
          fut |-> Pending]

\* Variant: broken() called without the exception, so that the semaphore
\* reports its default broken_semaphore error (failure 0; the generator's
\* failures are numbered from 1).
sem_broken_default(sem, ep) ==
    [sem |-> [count |-> 0, wait_list |-> <<>>,
              ex |-> Failure(0)],
     woken |-> [i \in DOMAIN sem.wait_list |-> sem.wait_list[i].c]]

\* semaphore::broken(ep): every waiter gets ep, later waits fail with ep.
sem_broken(sem, ep) ==
    [sem |-> [count |-> 0, wait_list |-> <<>>, ex |-> ep],
     woken |-> [i \in DOMAIN sem.wait_list |-> sem.wait_list[i].c]]

\* A promise fulfilled on shard `on` schedules its continuation there.
resolve_waiters(cs, woken, fut, on) ==
    [c \in DOMAIN cs |->
        IF c \in RangeOf(woken)
        THEN [cs[c] EXCEPT !.fut = fut, !.on = on]
        ELSE cs[c]]

\* ------------------------------------------------------------------------
\* Construction
\* ------------------------------------------------------------------------
\* joinpoint::joinpoint(func_type f), run on shard this_shard_id.
joinpoint_ctor(this_shard_id) ==
    [_shard |-> this_shard_id,
     _enter |-> new_semaphore(0),
     _wait  |-> new_semaphore(0),
     _value |-> None]

InitBase(max_shards) ==
    /\ smp_count \in 1 .. max_shards
    /\ creator \in 0 .. (smp_count - 1)
    /\ _shard = joinpoint_ctor(creator)._shard
    /\ _enter = joinpoint_ctor(creator)._enter
    /\ _wait = joinpoint_ctor(creator)._wait
    /\ _value = joinpoint_ctor(creator)._value
    /\ calls = <<>>
    /\ version = 0
    /\ arrivals = 0
    /\ gen_log = <<>>
    /\ outcomes = <<>>
    /\ wake_log = <<>>

\* Every shard takes part in the round.
Init == InitBase(MaxShards) /\ participants = 0 .. (smp_count - 1)

\* ------------------------------------------------------------------------
\* The generator
\* ------------------------------------------------------------------------
\* gms::version_generator::get_next_version(): the next version number.
get_next_version == version + 1

\* What the caller-supplied function f may do on its k-th invocation: return
\* the version it read, return a failed future, or throw.
Generator(k) ==
    {[how |-> "return", r |-> Value(get_next_version)],
     [how |-> "return", r |-> Failure(k)],
     [how |-> "throw", r |-> Failure(k)]}

\* Variant: f is called directly, a thrown exception stays thrown.
plain_invoke(o) == o

\* futurize_invoke(f): an exception thrown by f becomes a failed future.
futurize_invoke(o) == [how |-> "return", r |-> o.r]

\* _func as built by make_joinpoint.
_func(k) == {futurize_invoke(o) : o \in Generator(k)}

\* ------------------------------------------------------------------------
\* value()
\* ------------------------------------------------------------------------
\* Variant: the lambda is run on the calling shard.
submit_local(id) == id

\* smp::submit_to(_shard, ...): the shard the lambda runs on.
submit_target(id) == _shard

\* Variant: every call takes the owner branch.
is_owner_call_any(id) == TRUE

\* `id == _shard` in the lambda.
is_owner_call(id) == id = _shard

\* Variants: the owner waits for one unit less, or one more, than smp::count.
enter_units_short == smp_count - 1
enter_units_over == smp_count + 1

\* _enter.wait(smp::count)
enter_units == smp_count

\* Variants: one wake unit less, or one more, than smp::count - 1.
wake_units_short == smp_count - 2
wake_units_all == smp_count

\* _wait.signal(smp::count - 1)
wake_units == smp_count - 1

NewCall(s, late) ==
    [id |-> s, pc |-> "submitted", on |-> s, fut |-> Pending, gen |-> None,
     res |-> None, late |-> late]

\* The future of value() is resolved with res: at once when the lambda ran on
\* the calling shard, through the reply message of submit_to otherwise.
finish(cs, c, res) ==
    [cs EXCEPT ![c].res = res,
               ![c].pc = IF submit_target(cs[c].id) = cs[c].id
                         THEN "done" ELSE "reply"]

\* The lambda handed to submit_to, for call c, run on shard `on`: the new
\* call table and semaphores.
lambda(cs, c, on) ==
    LET sig == sem_signal(_enter, 1)
        cs1 == resolve_waiters(cs, sig.woken, Ready, on)
    IN  IF is_owner_call(cs[c].id)
        THEN LET w == sem_wait(sig.sem, c, enter_units)
             IN  [calls |-> [cs1 EXCEPT ![c].pc = "enter_wait",
                                        ![c].fut = w.fut, ![c].on = on],
                  enter |-> w.sem, wait |-> _wait]
        ELSE LET w == sem_wait(_wait, c, 1)
             IN  [calls |-> [cs1 EXCEPT ![c].pc = "wait_wait",
                                        ![c].fut = w.fut, ![c].on = on],
                  enter |-> sig.sem, wait |-> w.sem]

run_lambda(cs, c, on) ==
    /\ calls' = lambda(cs, c, on).calls
    /\ _enter' = lambda(cs, c, on).enter
    /\ _wait' = lambda(cs, c, on).wait
    /\ arrivals' = arrivals + 1

\* A call of value() on shard s.  submit_to runs the lambda at once when the
\* target is the calling shard and sends a message otherwise.
do_value(s, late) ==
    LET c == Len(calls) + 1
        cs == Append(calls, NewCall(s, late))
    IN  /\ IF submit_target(s) = s
           THEN run_lambda(cs, c, s)
           ELSE /\ calls' = cs
                /\ UNCHANGED <<_enter, _wait, arrivals>>
        /\ UNCHANGED <<smp_count, creator, participants, _shard, _value,
                       version, gen_log, outcomes, wake_log>>

\* The one call each participating shard makes in the round.
value(s) ==
    /\ s \in participants
    /\ \A c \in DOMAIN calls : calls[c].id # s
    /\ do_value(s, FALSE)

\* The message of submit_to reaches its target; messages of one shard arrive
\* in the order they were sent.
submit_to(c) ==
    /\ calls[c].pc = "submitted"
    /\ \A d \in DOMAIN calls :
          (d < c /\ calls[d].id = calls[c].id) => calls[d].pc # "submitted"
    /\ run_lambda(calls, c, submit_target(calls[c].id))
    /\ UNCHANGED <<smp_count, creator, participants, _shard, _value,
                   version, gen_log, outcomes, wake_log>>

\* The continuation of _enter.wait(smp::count): invoke _func.
enter_then(c) ==
    /\ calls[c].pc = "enter_wait"
    /\ calls[c].fut # Pending
    /\ IF IsFailure(calls[c].fut)
       THEN /\ calls' = finish(calls, c, calls[c].fut)
            /\ UNCHANGED <<version, gen_log, outcomes>>
       ELSE \E o \in _func(Len(gen_log) + 1) :
              /\ version' = get_next_version
              /\ gen_log' = Append(gen_log,
                                [shard |-> calls[c].on,
                                 arrivals |-> arrivals,
                                 waiters |-> Len(_wait.wait_list),
                                 arrived |-> {calls[d].id : d \in
                                     {x \in DOMAIN calls :
                                         calls[x].pc # "submitted"}},
                                 v |-> get_next_version])
              /\ IF o.how = "throw"
                 THEN \* the exception leaves the continuation: no
                      \* handle_exception is attached yet
                      /\ calls' = finish(calls, c, o.r)
                      /\ outcomes' = Append(outcomes, o.r)
                 ELSE /\ calls' = [calls EXCEPT ![c].pc = "func",
                                                ![c].gen = o.r]
                      /\ UNCHANGED outcomes
    /\ UNCHANGED <<smp_count, creator, participants, _shard, _enter, _wait,
                   _value, arrivals, wake_log>>

\* Variant: the assignment to _value is left out.
store_skipped(v) == _value

\* _value = std::move(v)
store_value(v) == v

\* _func().then(...): the generator's future resolved with a value.
func_then(c) ==
    /\ calls[c].pc = "func"
    /\ IsValue(calls[c].gen)
    /\ LET sig == sem_signal(_wait, wake_units)
           cs1 == resolve_waiters(calls, sig.woken, Ready, calls[c].on)
       IN  /\ _value' = store_value(calls[c].gen)
           /\ _wait' = sig.sem
           /\ calls' = finish(cs1, c, calls[c].gen)
           /\ wake_log' = Append(wake_log, [units |-> wake_units,
                                            woken |-> Len(sig.woken),
                                            left |-> sig.sem.count])
    /\ outcomes' = Append(outcomes, calls[c].gen)
    /\ UNCHANGED <<smp_count, creator, participants, _shard, _enter,
                   version, arrivals, gen_log>>

\* .handle_exception(...): the generator's future failed.
func_handle_exception(c) ==
    /\ calls[c].pc = "func"
    /\ IsFailure(calls[c].gen)
    /\ LET br == sem_broken(_wait, calls[c].gen)
           cs1 == resolve_waiters(calls, br.woken, br.sem.ex, calls[c].on)
       IN  /\ _wait' = br.sem
           /\ calls' = finish(cs1, c, calls[c].gen)
    /\ outcomes' = Append(outcomes, calls[c].gen)
    /\ UNCHANGED <<smp_count, creator, participants, _shard, _enter, _value,
                   version, arrivals, gen_log, wake_log>>

\* Variant: a default-constructed T is returned instead of *_value.
read_default == Value(0)

\* What the continuation of _wait.wait() returns: assert(_value); *_value.
read_value == IF _value = None THEN Abort ELSE _value

\* The continuation of _wait.wait(); a failed wait skips it and fails the call.
wait_then(c) ==
    /\ calls[c].pc = "wait_wait"
    /\ calls[c].fut # Pending
    /\ calls' = finish(calls, c, IF IsFailure(calls[c].fut)
                                 THEN calls[c].fut ELSE read_value)
    /\ UNCHANGED <<smp_count, creator, participants, _shard, _enter, _wait,
                   _value, version, arrivals, gen_log, outcomes, wake_log>>

\* The reply of submit_to resolves the caller's future on the calling shard.
reply(c) ==
    /\ calls[c].pc = "reply"
    /\ calls' = [calls EXCEPT ![c].pc = "done"]
    /\ UNCHANGED <<smp_count, creator, participants, _shard, _enter, _wait,
                   _value, version, arrivals, gen_log, outcomes, wake_log>>

Next ==
    \/ \E s \in Shards : value(s)
    \/ \E c \in DOMAIN calls : submit_to(c)
    \/ \E c \in DOMAIN calls : enter_then(c)
    \/ \E c \in DOMAIN calls : func_then(c)
    \/ \E c \in DOMAIN calls : func_handle_exception(c)
    \/ \E c \in DOMAIN calls : wait_then(c)
    \/ \E c \in DOMAIN calls : reply(c)

Spec == Init /\ [][Next]_vars

\* The instance has resolved: the result is a value or a failure.
Resolved == _value # None \/ _wait.ex # None

LateCalls == {c \in DOMAIN calls : calls[c].late}

\* A further value() call, by any shard, on an instance that has resolved.
late_value(s) ==
    /\ Resolved
    /\ Cardinality(LateCalls) < MaxLateCalls
    /\ do_value(s, TRUE)

NextLate ==
    \/ Next
    \/ \E s \in Shards : late_value(s)

InitLate == InitBase(MaxLateShards) /\ participants = 0 .. (smp_count - 1)

\* One round, then further calls on the resolved instance.
SpecLate == InitLate /\ [][NextLate]_vars

\* The calls of a shard that had already called value().
ExtraCalls ==
    {c \in DOMAIN calls : \E d \in 1 .. (c - 1) : calls[d].id = calls[c].id}

\* A shard calls value() again while the round is still unresolved; the
\* round has at most MaxRoundCalls calls, the first call of each shard
\* included.
extra_value(s) ==
    /\ \E c \in DOMAIN calls : calls[c].id = s
    /\ ~Resolved
    /\ smp_count + Cardinality(ExtraCalls) < MaxRoundCalls
    /\ do_value(s, FALSE)

NextDouble ==
    \/ Next
    \/ \E s \in Shards : extra_value(s)

\* At least two shards: with one shard there is no other shard to wait for.
InitDouble ==
    /\ InitBase(MaxDoubleShards)
    /\ smp_count >= 2
    /\ participants = 0 .. (smp_count - 1)

\* One round in which shards may call value() more than once.
SpecDouble == InitDouble /\ [][NextDouble]_vars

\* The failure with which submit_to fails when the target shard cannot be
\* reached (the generator's failures are numbered from 1).
ShardUnavailable == Failure(-1)

\* The message of submit_to cannot be dispatched: the lambda never runs and
\* the future returned by value() fails on the calling shard.
submit_fail(c) ==
    /\ calls[c].pc = "submitted"
    /\ calls' = [calls EXCEPT ![c].pc = "done", ![c].res = ShardUnavailable]
    /\ UNCHANGED <<smp_count, creator, participants, _shard, _enter, _wait,
                   _value, version, arrivals, gen_log, outcomes, wake_log>>

NextUnavailable ==
    \/ Next
    \/ \E c \in DOMAIN calls : submit_fail(c)

\* One round in which dispatches to the owner may fail.
SpecUnavailable == Init /\ [][NextUnavailable]_vars

\* Any set of shards takes part: the others never call value().
InitMissing == InitBase(MaxShards) /\ participants \in SUBSET (0 .. (smp_count - 1))

SpecMissing == InitMissing /\ [][Next]_vars

\* Tasks that can run do run, and every participating shard makes its call:
\* the step that is enabled is eventually taken (the run is finite).
FairSpec == Spec /\ WF_vars(Next)

\* ------------------------------------------------------------------------
\* Properties of one round (each shard calls value() once)
\* ------------------------------------------------------------------------
HasResult(c) == calls[c].pc \in {"reply", "done"}
Done(c) == calls[c].pc = "done"
RoundComplete ==
    /\ \A s \in Shards : \E c \in DOMAIN calls : calls[c].id = s
    /\ \A c \in DOMAIN calls : Done(c)
OwnerCalls == {c \in DOMAIN calls : calls[c].id = _shard}

\* C1: whatever the order of the value() calls and of their arrival at the
\* owner, _func is invoked at most once, the version counter is read once
\* per invocation, and a run that has come to rest (all the more a complete
\* round) has invoked _func exactly once.
C1_GeneratorOnce ==
    /\ Len(gen_log) <= 1
    /\ version = Len(gen_log)
    /\ (RoundComplete \/ ~ENABLED Next) => (Len(gen_log) = 1 /\ version = 1)

C1_Witness ==
    /\ smp_count = MaxShards
    /\ RoundComplete
    /\ Len(gen_log) = 1
    /\ calls[1].id # _shard
    /\ calls[smp_count].id # _shard

\* C2: any two calls of the round that have their outcome have the same
\* one, and it is a value or a failure.
C2_Agreement ==
    \A c, d \in DOMAIN calls :
        (HasResult(c) /\ HasResult(d)) =>
            /\ calls[c].res = calls[d].res
            /\ calls[c].res.kind \in {"value", "failure"}

C2_Witness ==
    /\ smp_count >= 2
    /\ RoundComplete
    /\ \E c \in DOMAIN calls : IsFailure(calls[c].res)

\* C3: at every invocation of _func the number of arrivals signalled on
\* _enter, sampled right before the invocation, is smp::count, and it is
\* still smp::count in every state after the generator has started.
C3_Barrier ==
    /\ \A i \in DOMAIN gen_log : gen_log[i].arrivals = smp_count
    /\ gen_log # <<>> => arrivals = smp_count

C3_Witness ==
    /\ smp_count = MaxShards
    /\ gen_log # <<>>
    /\ \E c \in DOMAIN calls : calls[c].pc = "func"
    /\ calls[1].id = _shard

\* C4: _func is only ever invoked by a task running on shard _shard, and
\* _shard is the shard that ran the constructor, in every state.
C4_OwnerOnly ==
    /\ _shard = creator
    /\ \A i \in DOMAIN gen_log : gen_log[i].shard = _shard

C4_Witness ==
    /\ smp_count >= 2
    /\ gen_log # <<>>
    /\ calls[1].id = _shard
    /\ creator # 0

\* C5: once the generator has failed, every one of the smp::count callers
\* has been handed that failure (its call completed with it, or its wait
\* on _wait was failed with it), none has a value, and _func has been
\* invoked once only.
C5_FailureToAll ==
    (outcomes # <<>> /\ IsFailure(outcomes[1])) =>
        /\ Len(gen_log) = 1
        /\ \A s \in Shards : \E c \in DOMAIN calls :
              /\ calls[c].id = s
              /\ \/ HasResult(c) /\ calls[c].res = outcomes[1]
                 \/ calls[c].pc = "wait_wait" /\ calls[c].fut = outcomes[1]
        /\ \A c \in DOMAIN calls : ~IsValue(calls[c].res)

C5_Witness ==
    /\ smp_count = MaxShards
    /\ outcomes # <<>>
    /\ IsFailure(outcomes[1])
    /\ \A c \in DOMAIN calls : Done(c) /\ calls[c].res = outcomes[1]

\* C6: when the generator succeeds with v, every call that has its outcome
\* has exactly v, the value read by the single invocation, and _value
\* holds v.
C6_Validity ==
    (outcomes # <<>> /\ IsValue(outcomes[1])) =>
        /\ outcomes[1] = Value(gen_log[1].v)
        /\ _value = outcomes[1]
        /\ \A c \in DOMAIN calls : HasResult(c) => calls[c].res = outcomes[1]

C6_Witness ==
    /\ smp_count = MaxShards
    /\ RoundComplete
    /\ \A c \in DOMAIN calls : calls[c].res = Value(1)

\* C7: under fair scheduling every one of the smp::count calls eventually
\* completes.
C7_Liveness == <>RoundComplete

C7_Witness ==
    /\ smp_count >= 2
    /\ RoundComplete
    /\ calls[smp_count].id = _shard
    /\ \A c \in DOMAIN calls : IsValue(calls[c].res)

\* ------------------------------------------------------------------------
\* Further calls on a resolved instance
\* ------------------------------------------------------------------------
FirstFailed == outcomes # <<>> /\ IsFailure(outcomes[1])

C10_MissingParticipant ==
    participants # Shards =>
        /\ gen_log = <<>>
        /\ outcomes = <<>>
        /\ _value = None
        /\ _wait.ex = None /\ _enter.ex = None
        /\ \A c \in DOMAIN calls :
              /\ ~HasResult(c)
              /\ calls[c].res = None
              /\ calls[c].fut \in {Pending}

C10_Witness ==
    /\ smp_count = MaxShards
    /\ Cardinality(participants) = smp_count - 1
    /\ _shard \in participants
    /\ Len(calls) = smp_count - 1
    /\ \A c \in DOMAIN calls : calls[c].pc \in {"enter_wait", "wait_wait"}
    /\ ~ENABLED Next

\* ------------------------------------------------------------------------
\* The single-shard round, and the wake-up of the waiters
\* ------------------------------------------------------------------------
\* C11: with smp::count = 1 the only call is never queued on _enter or on
\* _wait (its wait on _enter is ready at once and it never waits on _wait),
\* the signal on _wait carries zero units and wakes nobody, and the call
\* ends with the outcome of the generator.
C11_SingleShard ==
    smp_count = 1 =>
        /\ Len(calls) <= 1
        /\ _enter.wait_list = <<>> /\ _wait.wait_list = <<>>
        /\ _wait.count = 0
        /\ \A i \in DOMAIN wake_log :
              wake_log[i].units = 0 /\ wake_log[i].woken = 0
        /\ \A c \in DOMAIN calls :
              /\ calls[c].fut = Ready
              /\ calls[c].pc \in {"enter_wait", "func", "done"}
              /\ calls[c].pc = "enter_wait" => _enter.count = 0
              /\ Done(c) => (Len(gen_log) = 1 /\ calls[c].res = outcomes[1])
        /\ ~ENABLED Next => (Len(calls) = 1 /\ Done(1))

C11_Witness ==
    /\ smp_count = 1
    /\ Len(calls) = 1
    /\ Done(1)
    /\ IsValue(calls[1].res)
    /\ wake_log = <<[units |-> 0, woken |-> 0, left |-> 0]>>

\* C12: whenever the wait of a non-owner call on _wait has been granted,
\* _value is filled, so assert(_value) in the continuation holds: no call
\* ever aborts, and a granted waiter reads the generator's value.
C12_WriteBeforeWake ==
    /\ \A c \in DOMAIN calls :
          /\ calls[c].res # Abort
          /\ (calls[c].id # _shard /\ calls[c].fut = Ready) =>
                (_value # None /\ _value = outcomes[1])
    /\ wake_log # <<>> => _value # None

C12_Witness ==
    /\ smp_count = MaxShards
    /\ _value # None
    /\ \E c \in DOMAIN calls : calls[c].pc = "wait_wait" /\ calls[c].fut = Ready
    /\ \E c \in DOMAIN calls : calls[c].pc = "reply" /\ IsValue(calls[c].res)

\* C13: on success the owner signals _wait with exactly smp::count - 1
\* units, each taken by one of the smp::count - 1 waiting non-owner calls:
\* no unit is left, no waiter stays queued, and the owner's own call never
\* waits on _wait.
C13_ExactWakes ==
    /\ \A c \in OwnerCalls : calls[c].pc \in {"enter_wait", "func", "done"}
    /\ (outcomes # <<>> /\ IsValue(outcomes[1])) =>
          /\ wake_log = <<[units |-> smp_count - 1,
                           woken |-> smp_count - 1,
                           left |-> 0]>>
          /\ _wait.count = 0
          /\ _wait.wait_list = <<>>
          /\ Cardinality({c \in DOMAIN calls :
                 calls[c].id # _shard /\ calls[c].fut = Ready}) = smp_count - 1
    /\ (outcomes = <<>> \/ IsFailure(outcomes[1])) => wake_log = <<>>

C13_Witness ==
    /\ smp_count = MaxShards
    /\ RoundComplete
    /\ IsValue(outcomes[1])
    /\ calls[2].id = _shard
    /\ wake_log # <<>>

\* ------------------------------------------------------------------------
\* The life cycle of the instance
\* ------------------------------------------------------------------------
\* Pending until _func is invoked, Computing until its future resolves,
\* then Resolved (a value) or Failed (an exception).
State ==
    IF gen_log = <<>> THEN "Pending"
    ELSE IF outcomes = <<>> THEN "Computing"
    ELSE IF IsValue(outcomes[1]) THEN "Resolved"
    ELSE "Failed"

StateInv ==
    /\ Len(gen_log) <= 1 /\ Len(outcomes) <= 1
    /\ State = "Pending" => arrivals <= smp_count
    /\ State # "Pending" => arrivals = smp_count
    /\ State \in {"Pending", "Computing"} =>
          /\ \A c \in DOMAIN calls : ~HasResult(c) /\ calls[c].res = None
          /\ _value = None /\ _wait.ex = None
    /\ State = "Resolved" <=> _value # None
    /\ State = "Failed" <=> _wait.ex # None
    /\ ~ENABLED Next => State \in {"Resolved", "Failed"}

StateStep ==
    \/ State' = State
    \/ /\ State = "Pending" /\ State' = "Computing"
       /\ arrivals = smp_count
       /\ \E c \in DOMAIN calls : enter_then(c)
    \/ /\ State = "Computing" /\ State' = "Resolved"
       /\ \E c \in DOMAIN calls : func_then(c)
    \/ /\ State = "Computing" /\ State' = "Failed"
       /\ \E c \in DOMAIN calls : func_handle_exception(c)

\* C14: in a one-call-per-shard round the instance only moves Pending ->
\* Computing (by the invocation of _func, with smp::count arrivals
\* recorded) and Computing -> Resolved or Failed (by the completion of the
\* generator), each at most once and both in every run that comes to rest;
\* Resolved and Failed are never left, and no call has an outcome while the
\* instance is Pending or Computing.
C14_StateMachine == [](StateInv) /\ [][StateStep]_vars

C14_Witness ==
    /\ smp_count = MaxShards
    /\ State = "Failed"
    /\ RoundComplete
    /\ calls[2].id = _shard

\* ------------------------------------------------------------------------
\* Which shard touches the state
\* ------------------------------------------------------------------------
\* A step of a task running on shard _shard (own = TRUE) or on another
\* shard (own = FALSE): value() runs on the calling shard, the lambda on the
\* target of submit_to, a continuation where its future was resolved, the
\* reply of submit_to on the calling shard.
StepOn(own) ==
    \/ \E s \in Shards : (s = _shard) = own /\ value(s)
    \/ \E c \in DOMAIN calls :
          (submit_target(calls[c].id) = _shard) = own /\ submit_to(c)
    \/ \E c \in DOMAIN calls :
          /\ (calls[c].on = _shard) = own
          /\ \/ enter_then(c)
             \/ func_then(c)
             \/ func_handle_exception(c)
             \/ wait_then(c)
    \/ \E c \in DOMAIN calls : (calls[c].id = _shard) = own /\ reply(c)

OwnedState == <<arrivals, _enter, _wait, _value>>

\* C15: every step that changes the arrival count, a semaphore or _value
\* is a step of a task running on shard _shard; a step running on any other
\* shard leaves them unchanged; and in a one-call-per-shard round at most
\* smp::count arrivals are recorded.
C15_OwnerConfined ==
    /\ [][OwnedState' # OwnedState => StepOn(TRUE)]_vars
    /\ [][StepOn(FALSE) => OwnedState' = OwnedState]_vars
    /\ [](arrivals <= smp_count /\ _enter.count <= smp_count)

C15_Witness ==
    /\ smp_count = MaxShards
    /\ arrivals = smp_count
    /\ _value # None
    /\ \E c \in DOMAIN calls : calls[c].id # _shard /\ Done(c)
    /\ \E c \in DOMAIN calls : calls[c].id # _shard /\ calls[c].pc = "reply"

\* ------------------------------------------------------------------------
\* A shard calling value() more than once in the round
\* ------------------------------------------------------------------------
OneSuccess == Len(gen_log) = 1 /\ outcomes # <<>> /\ IsValue(outcomes[1])

Served == {c \in DOMAIN calls : calls[c].id # _shard /\ calls[c].fut = Ready}

Suspended(c) == calls[c].pc = "wait_wait" /\ calls[c].fut = Pending

\* C16 as stated: on the success path a shard that had not arrived when the
\* generator was invoked stays suspended, whichever shard repeated its call.
C16_LateSuspended ==
    OneSuccess =>
        \A c \in DOMAIN calls :
            calls[c].id \notin gen_log[1].arrived =>
                (~HasResult(c) /\ calls[c].fut # Ready)

\* C16, amended: with repeated calls _func may be invoked with smp::count
\* units on _enter although not all shards have arrived, and nothing reports
\* the misuse.  On the success path the smp::count - 1 wake units go to the
\* first smp::count - 1 non-owner calls that arrive: a call of a shard that
\* arrives after the invocation stays suspended for good exactly when the
\* units are used up (the repeated call was a non-owner's), and gets the
\* value when one is left (the repeated call was the owner's).
C16_Corrupted ==
    /\ [](/\ \A i \in DOMAIN gen_log : gen_log[i].arrivals >= smp_count
          /\ \A c \in DOMAIN calls :
                /\ calls[c].res # Abort
                /\ HasResult(c) => calls[c].res \in RangeOf(outcomes)
          /\ OneSuccess =>
                /\ Cardinality(Served) + _wait.count = smp_count - 1
                /\ _wait.wait_list # <<>> => _wait.count = 0
                /\ \A c \in DOMAIN calls :
                      (/\ calls[c].id \notin gen_log[1].arrived
                       /\ calls[c].pc # "submitted") =>
                          (Suspended(c) <=>
                              Cardinality(Served \ {c}) = smp_count - 1))
    /\ [][(OneSuccess /\ Len(gen_log') = 1) =>
             \A c \in DOMAIN calls : Suspended(c) => Suspended(c)']_vars

C16_Witness ==
    /\ OneSuccess
    /\ Cardinality(gen_log[1].arrived) < smp_count
    /\ \E c \in DOMAIN calls :
          calls[c].id \notin gen_log[1].arrived /\ Suspended(c)
    /\ \A c \in DOMAIN calls : Suspended(c) \/ Done(c)
    /\ ~ENABLED NextDouble

\* ------------------------------------------------------------------------
\* A dispatch to the owner that fails
\* ------------------------------------------------------------------------
Undelivered == {c \in DOMAIN calls : calls[c].res = ShardUnavailable}

\* C17: when the dispatch of a call fails, that call alone ends with the
\* dispatch failure, its arrival is not counted and it is not submitted
\* again; from then on _func is never invoked, the instance never resolves,
\* and every call that has arrived stays suspended on its semaphore.
C17_ShardUnavailable ==
    /\ \A c \in Undelivered : Done(c)
    /\ arrivals = Cardinality({c \in DOMAIN calls :
                      calls[c].pc \notin {"submitted"} /\ c \notin Undelivered})
    /\ Undelivered # {} =>
          /\ gen_log = <<>> /\ outcomes = <<>>
          /\ ~Resolved
          /\ arrivals <= smp_count - Cardinality(Undelivered)
          /\ \A c \in DOMAIN calls \ Undelivered :
                /\ ~HasResult(c)
                /\ calls[c].res = None
                /\ calls[c].pc \in {"submitted", "enter_wait", "wait_wait"}
                /\ calls[c].fut = Pending

C17_Witness ==
    /\ smp_count = MaxShards
    /\ Cardinality(Undelivered) = 1
    /\ arrivals = smp_count - 1
    /\ \E c \in DOMAIN calls : calls[c].pc = "enter_wait"
    /\ \E c \in DOMAIN calls : calls[c].pc = "wait_wait"
    /\ ~ENABLED NextUnavailable

\* ------------------------------------------------------------------------
\* The waiters at the moment _func is invoked
\* ------------------------------------------------------------------------
\* The non-owner calls whose lambda has run on the owner.
ArrivedOthers ==
    {c \in DOMAIN calls : calls[c].id # _shard /\ calls[c].pc # "submitted"}

\* C18: when each shard calls once, a non-owner call that has signalled
\* _enter is, in every state another task can observe, already queued on
\* _wait; so at the moment _func is invoked all smp::count - 1 non-owner
\* calls are suspended on _wait, and they still are while _func computes.
C18_WaitersAtInvocation ==
    /\ outcomes = <<>> =>
          /\ Len(_wait.wait_list) = Cardinality(ArrivedOthers)
          /\ \A c \in ArrivedOthers :
                calls[c].pc = "wait_wait" /\ calls[c].fut = Pending
          /\ arrivals = Cardinality(ArrivedOthers)
                          + Cardinality({c \in OwnerCalls :
                                            calls[c].pc # "submitted"})
    /\ \A i \in DOMAIN gen_log :
          /\ gen_log[i].waiters = smp_count - 1
          /\ gen_log[i].arrived = Shards
    /\ \A c \in DOMAIN calls : calls[c].pc = "func" =>
          /\ Cardinality(ArrivedOthers) = smp_count - 1
          /\ Len(_wait.wait_list) = smp_count - 1

C18_Witness ==
    /\ smp_count = MaxShards
    /\ Len(gen_log) = 1
    /\ gen_log[1].waiters = smp_count - 1
    /\ \E c \in OwnerCalls : calls[c].pc = "func"
    /\ calls[1].id = _shard
    /\ Len(_wait.wait_list) = smp_count - 1

====
